---- MODULE Spec2Model ----
(***************************************************************************)
(* MetadataReporter (src/lib/MetadataReporter.ts): the console reporter    *)
(* the Playwright runner calls once per finished test.  The reporter has   *)
(* no fields; what it changes is the console.  Strings are TLA+ strings,   *)
(* every other JavaScript value is a tagged record, and a raised TypeError *)
(* is the value Throw.                                                     *)
(*                                                                         *)
(* ProductSteps (src/tests/steps/ProductSteps.ts) with the page objects    *)
(* MainPage and ProductsPage: the steps of a test body, run against a site *)
(* whose answers are fixed when the run starts.                            *)
(*                                                                         *)
(* createTestMetadata (@lib/TestMetadata): the registration of a test with *)
(* its metadata, from which the runner builds the test case the reporter   *)
(* is given.                                                               *)
(***************************************************************************)
EXTENDS Integers, Sequences, FiniteSets, TLC

VARIABLES
    console,  \* the lines written with console.log so far, oldest first
    calls,    \* one record per onTestEnd invocation the runner has made
    site,     \* how the site under test answers the browser in this run
    bodies,   \* per test body: the steps awaited so far and what they did
    registry, \* one record per test(...) registration of the test file
    pending   \* the tasks waiting in the event loop of the reporter process

vars == <<console, calls, site, bodies, registry, pending>>

(* ------------------------- JavaScript values --------------------------- *)

Undefined == [t |-> "undefined"]
Null == [t |-> "null"]
Throw == [t |-> "throw"]
Str(s) == [t |-> "string", v |-> s]
Num(n) == [t |-> "number", v |-> n]
Arr(s) == [t |-> "array", v |-> s]
\* an annotation object; a property that is not set reads as Undefined
Ann(type, description) == [t |-> "object", type |-> type, description |-> description]
Bool(b) == [t |-> "boolean", v |-> b]
\* the promise an async function returns, settled with v
Promise(v) == [t |-> "object", v |-> v]

\* ToBoolean, as used by `if (x)`, `x || y` and `x ? a : b`
Truthy(x) ==
    CASE x.t = "string" -> x.v # ""
      [] x.t = "number" -> x.v # 0
      [] x.t = "array" -> TRUE
      [] x.t = "object" -> TRUE
      [] OTHER -> FALSE

\* `a || b`: b is evaluated only when a is falsy; an exception in a propagates
OrElse(a, b) == IF a = Throw THEN Throw ELSE IF Truthy(a) THEN a ELSE b

\* a template literal leaving undefined and null out
TemplateStr_BlankUndefined(x) ==
    CASE x.t = "string" -> x.v
      [] x.t = "number" -> ToString(x.v)
      [] x.t \in {"undefined", "null"} -> ""
      [] OTHER -> "[object Object]"

\* `${x}` inside a template literal
TemplateStr(x) ==
    CASE x.t = "string" -> x.v
      [] x.t = "undefined" -> "undefined"
      [] x.t = "null" -> "null"
      [] x.t = "number" -> ToString(x.v)
      [] OTHER -> "[object Object]"

\* String.prototype.startsWith and String.prototype.substring(start)
StartsWith(s, prefix) == Len(s) >= Len(prefix) /\ SubSeq(s, 1, Len(prefix)) = prefix
Substring(s, start) == SubSeq(s, start + 1, Len(s))

\* reading property `type` / `description` of an array element: a TypeError
\* on null and undefined, undefined on a primitive, the field on an object
GetType(a) ==
    CASE a.t \in {"null", "undefined"} -> Throw
      [] a.t = "object" -> a.type
      [] OTHER -> Undefined

(* ----------------------------- the reporter ---------------------------- *)

\* getStatusSymbol without its 'timedOut' case
getStatusSymbol_NoTimedOut(status) ==
    CASE status = Str("passed") -> "<U+2705>"
      [] status = Str("failed") -> "<U+274C>"
      [] status = Str("skipped") -> "<U+23ED><U+FE0F>"
      [] OTHER -> "<U+2753>"

\* the glyphs, written as their code points
getStatusSymbol(status) ==
    CASE status = Str("passed") -> "<U+2705>"
      [] status = Str("failed") -> "<U+274C>"
      [] status = Str("timedOut") -> "<U+23F1><U+FE0F>"
      [] status = Str("skipped") -> "<U+23ED><U+FE0F>"
      [] OTHER -> "<U+2753>"

\* find skipping the annotations without a description
RECURSIVE FindAnnotation_FirstWithDescription(_, _)
FindAnnotation_FirstWithDescription(annotations, type) ==
    IF annotations = <<>> THEN Undefined
    ELSE LET a == Head(annotations) IN
         IF GetType(a) = Throw THEN Throw
         ELSE IF GetType(a) = Str(type) /\ Truthy(a.description) THEN a
         ELSE FindAnnotation_FirstWithDescription(Tail(annotations), type)

\* annotations.find(a => a.type === type): the first match, Undefined when
\* there is none, Throw when the callback raises on an element before it
RECURSIVE FindAnnotation(_, _)
FindAnnotation(annotations, type) ==
    IF annotations = <<>> THEN Undefined
    ELSE LET a == Head(annotations) IN
         IF GetType(a) = Throw THEN Throw
         ELSE IF GetType(a) = Str(type) THEN a
         ELSE FindAnnotation(Tail(annotations), type)

\* findAnnotationValue returning the label of the annotation found
findAnnotationValue_Label(annotations, type) ==
    LET annotation == FindAnnotation(annotations, type) IN
    IF annotation = Throw THEN Throw
    ELSE IF annotation = Undefined THEN Undefined
    ELSE annotation.type

\* return annotation?.description
findAnnotationValue(annotations, type) ==
    LET annotation == FindAnnotation(annotations, type) IN
    IF annotation = Throw THEN Throw
    ELSE IF annotation = Undefined THEN Undefined
    ELSE annotation.description

\* find preferring the last tag with the prefix
RECURSIVE FindTag_Last(_, _)
FindTag_Last(tags, prefix) ==
    IF tags = <<>> THEN Undefined
    ELSE LET tg == tags[Len(tags)] IN
         IF tg.t # "string" THEN Throw
         ELSE IF StartsWith(tg.v, prefix) THEN tg
         ELSE FindTag_Last(SubSeq(tags, 1, Len(tags) - 1), prefix)

\* tags.find(t => t.startsWith(prefix)): only a string has startsWith
RECURSIVE FindTag(_, _)
FindTag(tags, prefix) ==
    IF tags = <<>> THEN Undefined
    ELSE LET tg == Head(tags) IN
         IF tg.t # "string" THEN Throw
         ELSE IF StartsWith(tg.v, prefix) THEN tg
         ELSE FindTag(Tail(tags), prefix)

\* findTagValue dropping only the "@": tag.substring(1)
findTagValue_KeepsPrefix(tags, prefix) ==
    LET tag == FindTag(tags, prefix) IN
    IF tag = Throw THEN Throw
    ELSE IF Truthy(tag) THEN Str(Substring(tag.v, 1))
    ELSE Undefined

\* return tag ? tag.substring(prefix.length) : undefined
findTagValue(tags, prefix) ==
    LET tag == FindTag(tags, prefix) IN
    IF tag = Throw THEN Throw
    ELSE IF Truthy(tag) THEN Str(Substring(tag.v, Len(prefix)))
    ELSE Undefined

\* the body of Locals with three of its choices open: tags consulted before
\* annotations for testId, the default of testId, the default of feature
LocalsWith(test, result, tagsFirst, testIdDefault, featureDefault) ==
    LET tags == OrElse(test.tags, Arr(<<>>)).v
        annotations == OrElse(test.annotations, Arr(<<>>)).v
    IN  [status |-> Str(getStatusSymbol(result.status)),
         testId |-> IF tagsFirst
                    THEN OrElse(findTagValue(tags, "@TC"),
                                OrElse(findAnnotationValue(annotations, "Test ID"),
                                       testIdDefault))
                    ELSE OrElse(findAnnotationValue(annotations, "Test ID"),
                                OrElse(findTagValue(tags, "@TC"), testIdDefault)),
         priority |-> OrElse(findAnnotationValue(annotations, "Priority"),
                             findTagValue(tags, "@P")),
         author |-> OrElse(findAnnotationValue(annotations, "Author"), Str("Unknown")),
         page |-> OrElse(findAnnotationValue(annotations, "Page"),
                         OrElse(findTagValue(tags, "@"), Str("Unknown"))),
         feature |-> OrElse(findAnnotationValue(annotations, "Feature"), featureDefault),
         jiraTicket |-> findAnnotationValue(annotations, "Jira Ticket")]

\* Locals resolving testId from the tags before the annotations
Locals_TagsFirst(test, result) == LocalsWith(test, result, TRUE, Undefined, Str("Unknown"))

\* Locals giving testId the default 'Unknown'
Locals_TestIdUnknown(test, result) ==
    LocalsWith(test, result, FALSE, Str("Unknown"), Str("Unknown"))

\* Locals giving feature no default
Locals_FeatureNoDefault(test, result) ==
    LocalsWith(test, result, FALSE, Undefined, Undefined)

\* Locals resolving page from a tag with a prefix of its own, "@Page"
Locals_PagePrefix(test, result) ==
    [LocalsWith(test, result, FALSE, Undefined, Str("Unknown")) EXCEPT
        !.page = OrElse(findAnnotationValue(OrElse(test.annotations, Arr(<<>>)).v, "Page"),
                        OrElse(findTagValue(OrElse(test.tags, Arr(<<>>)).v, "@Page"),
                               Str("Unknown")))]

\* the constants of onTestEnd, lines 11-21
Locals(test, result) ==
    LET tags == OrElse(test.tags, Arr(<<>>)).v
        annotations == OrElse(test.annotations, Arr(<<>>)).v
    IN  [status |-> Str(getStatusSymbol(result.status)),
         testId |-> OrElse(findAnnotationValue(annotations, "Test ID"),
                           findTagValue(tags, "@TC")),
         priority |-> OrElse(findAnnotationValue(annotations, "Priority"),
                             findTagValue(tags, "@P")),
         author |-> OrElse(findAnnotationValue(annotations, "Author"), Str("Unknown")),
         page |-> OrElse(findAnnotationValue(annotations, "Page"),
                         OrElse(findTagValue(tags, "@"), Str("Unknown"))),
         feature |-> OrElse(findAnnotationValue(annotations, "Feature"), Str("Unknown")),
         jiraTicket |-> findAnnotationValue(annotations, "Jira Ticket")]

LocalNames == {"status", "testId", "priority", "author", "page", "feature", "jiraTicket"}

\* Line1 with the two brackets in the other order
Line1_PriorityFirst(l, test) ==
    TemplateStr(l.status) \o " [" \o TemplateStr(l.priority) \o "][" \o
    TemplateStr(l.testId) \o "] " \o TemplateStr(test.title)

\* the first console.log, line 24
Line1(l, test) ==
    TemplateStr(l.status) \o " [" \o TemplateStr(l.testId) \o "][" \o
    TemplateStr(l.priority) \o "] " \o TemplateStr(test.title)

\* Line2 appending the Jira segment unconditionally
Line2_AlwaysJira(l) ==
    "   Page: " \o TemplateStr(l.page) \o " | Feature: " \o TemplateStr(l.feature) \o
    " | Author: " \o TemplateStr(l.author) \o " | Jira: " \o TemplateStr(l.jiraTicket)

\* the second console.log, line 25
Line2(l) ==
    "   Page: " \o TemplateStr(l.page) \o " | Feature: " \o TemplateStr(l.feature) \o
    " | Author: " \o TemplateStr(l.author) \o
    (IF Truthy(l.jiraTicket) THEN " | Jira: " \o TemplateStr(l.jiraTicket) ELSE "")

Separator == "   ---"

\* Lines with the separator for every status but 'passed'
Lines_SeparatorUnlessPassed(l, test, result) ==
    <<Line1(l, test), Line2(l)>> \o
    (IF result.status # Str("passed") THEN <<Separator>> ELSE <<>>)

\* the console.log calls of one invocation that got past line 21
Lines(l, test, result) ==
    <<Line1(l, test), Line2(l)>> \o
    (IF result.status = Str("failed") THEN <<Separator>> ELSE <<>>)

NoLocals == [n \in LocalNames |-> Undefined]

\* the two argument objects of an invocation
Args(test, result) == [test |-> test, result |-> result]

\* Run storing the defaulted lists back: test.tags = test.tags || [] and
\* test.annotations = test.annotations || []
Run_DefaultsStored(test, result) ==
    LET filled == [test EXCEPT !.tags = OrElse(test.tags, Arr(<<>>)),
                               !.annotations = OrElse(test.annotations, Arr(<<>>))]
    IN
    IF ~Truthy(result.status)
    THEN [entered |-> FALSE, threw |-> FALSE, locals |-> NoLocals, lines |-> <<>>,
          after |-> Args(test, result)]
    ELSE LET l == Locals(test, result) IN
         IF \E n \in LocalNames : l[n] = Throw
         THEN [entered |-> TRUE, threw |-> TRUE, locals |-> NoLocals, lines |-> <<>>,
               after |-> Args(filled, result)]
         ELSE [entered |-> TRUE, threw |-> FALSE, locals |-> l,
               lines |-> Lines(l, test, result), after |-> Args(filled, result)]

\* Run guarding on `result.status !== undefined`
Run_StatusNotUndefined(test, result) ==
    IF result.status = Undefined
    THEN [entered |-> FALSE, threw |-> FALSE, locals |-> NoLocals, lines |-> <<>>,
          after |-> Args(test, result)]
    ELSE LET l == Locals(test, result) IN
         IF \E n \in LocalNames : l[n] = Throw
         THEN [entered |-> TRUE, threw |-> TRUE, locals |-> NoLocals, lines |-> <<>>,
               after |-> Args(test, result)]
         ELSE [entered |-> TRUE, threw |-> FALSE, locals |-> l,
               lines |-> Lines(l, test, result), after |-> Args(test, result)]

\* What one invocation does: whether it entered the `if`, whether it
\* raised, the constants it computed, and the lines it wrote.  Every
\* expression that can raise is evaluated before the first console.log, so
\* an invocation that raises has written nothing; its constants are lost.
\* No statement assigns to test, result or anything reachable from them, so
\* the arguments are after the invocation what they were before it.
Run(test, result) ==
    IF ~Truthy(result.status)
    THEN [entered |-> FALSE, threw |-> FALSE, locals |-> NoLocals, lines |-> <<>>,
          after |-> Args(test, result)]
    ELSE LET l == Locals(test, result) IN
         IF \E n \in LocalNames : l[n] = Throw
         THEN [entered |-> TRUE, threw |-> TRUE, locals |-> NoLocals, lines |-> <<>>,
               after |-> Args(test, result)]
         ELSE [entered |-> TRUE, threw |-> FALSE, locals |-> l,
               lines |-> Lines(l, test, result), after |-> Args(test, result)]

(* ------------------------------- inputs -------------------------------- *)

\* how many onTestEnd invocations a run of the model makes
MaxCalls == 1

\* result.status values: absent, empty, the runner's four, and another one
Statuses ==
    {Undefined, Str(""), Str("passed"), Str("failed"), Str("timedOut"),
     Str("skipped"), Str("interrupted")}

Results == {[status |-> s] : s \in Statuses}

\* test.annotations as the runner can hold them: absent, or a list of
\* {type, description?} objects with string fields.  The lists are: none,
\* the identifying three, all six labels, and every label twice, the first
\* of the two with an empty description, without one, or with another value.
AnnotationLists ==
    {Undefined,
     Arr(<<>>),
     Arr(<<Ann(Str("Test ID"), Str("TC007")), Ann(Str("Priority"), Str("P2")),
           Ann(Str("Author"), Str("Jane"))>>),
     Arr(<<Ann(Str("Test ID"), Str("TC007")), Ann(Str("Priority"), Str("P2")),
           Ann(Str("Author"), Str("Jane")), Ann(Str("Page"), Str("Products")),
           Ann(Str("Feature"), Str("Search")), Ann(Str("Jira Ticket"), Str("JIRA-99"))>>),
     Arr(<<Ann(Str("Description"), Str("Jira Ticket")),
           Ann(Str("Test ID"), Str("")), Ann(Str("Test ID"), Str("TC007")),
           Ann(Str("Priority"), Undefined), Ann(Str("Priority"), Str("P2")),
           Ann(Str("Author"), Str("Jane")), Ann(Str("Author"), Str("Joe")),
           Ann(Str("Page"), Undefined), Ann(Str("Page"), Str("Products")),
           Ann(Str("Feature"), Str("")), Ann(Str("Feature"), Str("Search")),
           Ann(Str("Jira Ticket"), Str("")), Ann(Str("Jira Ticket"), Str("JIRA-99"))>>)}

\* test.tags: absent (a runner without TestCase.tags), or a list of strings.
\* The lists are: none, the two short tags, a page tag ahead of the
\* priority tag, and a list with a tag no prefix matches, tags that are
\* exactly a prefix, and a tag naming a Jira ticket.
TagLists ==
    {Undefined,
     Arr(<<>>),
     Arr(<<Str("@TC042"), Str("@P1")>>),
     Arr(<<Str("@ProductsPage"), Str("@P1")>>),
     Arr(<<Str("API"), Str("@"), Str("@P"), Str("@TC"), Str("@JIRA-99")>>)}

Titles == {"Verify Products Page", "getAllProducts"}

TestCases ==
    {[title |-> Str(ti), annotations |-> a, tags |-> tg] :
        ti \in Titles, a \in AnnotationLists, tg \in TagLists}

\* What `annotations: any[]` and a runner outside its declared types can
\* also pass: lists with a null or undefined element, before or after an
\* annotation, with a primitive element, and tag lists with an element
\* that is no string.
MalformedAnnotationLists ==
    {Arr(<<Null>>),
     Arr(<<Undefined, Ann(Str("Test ID"), Str("TC007"))>>),
     Arr(<<Ann(Str("Test ID"), Str("TC007")), Null>>),
     Arr(<<Num(7), Ann(Str("Priority"), Str("P2"))>>)}

MalformedTagLists ==
    {Arr(<<Num(42)>>),
     Arr(<<Str("@TC042"), Null>>),
     Arr(<<Undefined, Str("@P1")>>)}

AnyTestCases ==
    TestCases \cup
    {[title |-> Str(ti), annotations |-> a, tags |-> tg] :
        ti \in Titles, a \in MalformedAnnotationLists, tg \in TagLists} \cup
    {[title |-> Str(ti), annotations |-> a, tags |-> tg] :
        ti \in Titles, a \in AnnotationLists, tg \in MalformedTagLists}

(* ------------------------ page objects and steps ----------------------- *)

\* s.includes(sub)
Includes(s, sub) ==
    \E k \in 1..(Len(s) - Len(sub) + 1) : SubSeq(s, k, k + Len(sub) - 1) = sub

\* the timeout of the wait for the Consent button, in ms
ConsentTimeout == 3000

\* the expectedCount default of verifySearchResults
DefaultExpectedCount == 1

\* The site in a run.  fault: the browser action that rejects (it times
\* out, or its target is gone), if any.  consent: whether and after how many
\* ms the Consent button shows, or that waiting for it fails.  url: the
\* page URL after the click on the Products link.  allProducts, searched:
\* whether the headings are visible.  count: the product cards with the
\* search term.
Faults == {"none", "goto", "click Consent", "click Products",
           "fill search_product", "click submit_search"}

Consents ==
    {[kind |-> "visible", after |-> ms] : ms \in {0, ConsentTimeout - 1, ConsentTimeout + 1}}
    \cup {[kind |-> "never", after |-> 0], [kind |-> "error", after |-> 0]}

Sites ==
    [fault : Faults, consent : Consents, url : {"/products", "/"},
     allProducts : BOOLEAN, searched : BOOLEAN, count : {0, 1, 2}]

\* a site nothing is asked of
BlankSite ==
    [fault |-> "none", consent |-> [kind |-> "never", after |-> 0], url |-> "/",
     allProducts |-> FALSE, searched |-> FALSE, count |-> 0]

\* the search terms of tests/api/GET.test.ts
SearchTerms == {"WRONG PRODUCT", "Frozen Tops For Kids"}

\* What an async call leaves behind: the browser actions it issued, oldest
\* first, and whether its promise rejected.
Done == [actions |-> <<>>, threw |-> FALSE]

\* await of a browser action: it rejects when the site makes it fail
Act(s, do) == [actions |-> <<[do |-> do, ok |-> s.fault # do]>>, threw |-> s.fault = do]

\* await a; await b, going on after a rejection of a
Then_GoesOn(a, b) == [actions |-> a.actions \o b.actions, threw |-> a.threw \/ b.threw]

\* await a; await b: a rejection of a leaves the function, b is not started
Then(a, b) ==
    IF a.threw THEN a
    ELSE [actions |-> a.actions \o b.actions, threw |-> b.threw]

\* an async page-object method called and not awaited: its query is issued
\* and the caller holds the promise
Started(do, value) == [actions |-> <<[do |-> do, ok |-> TRUE]>>, value |-> Promise(value)]

\* MainPage.clickOnProductsLink
clickOnProductsLink(s) == Act(s, "click Products")

\* navigateToURL clicking Consent whether or not it showed
navigateToURL_AlwaysClicks(s) ==
    Then(Act(s, "goto"),
         Then([actions |-> <<[do |-> "waitFor Consent", ok |-> TRUE]>>, threw |-> FALSE],
              Act(s, "click Consent")))

\* MainPage.navigateToURL: waitFor(...).then(() => true).catch(() => false)
\* settles with true when the button shows before the timeout, with false
\* on the timeout and on any other rejection
navigateToURL(s) ==
    LET isDialogVisible == s.consent.kind = "visible" /\ s.consent.after < ConsentTimeout
    IN  Then(Act(s, "goto"),
             Then([actions |-> <<[do |-> "waitFor Consent", ok |-> TRUE]>>, threw |-> FALSE],
                  IF isDialogVisible THEN Act(s, "click Consent") ELSE Done))

\* ProductsPage.isProductPage: page.url() is read in the test process
isProductPage(s) == [actions |-> <<>>, value |-> Promise(Bool(Includes(s.url, "/products")))]

\* ProductsPage.isAllProductsTextVisible
isAllProductsTextVisible(s) == Started("isVisible All Products", Bool(s.allProducts))

\* ProductsPage.getSearchProductsText
getSearchProductsText(s) == Started("isVisible Searched Products", Bool(s.searched))

\* ProductsPage.searchForProduct
searchForProductOnPage(s, productName) ==
    Then(Act(s, "fill search_product"), Act(s, "click submit_search"))

\* expect(call).toBeTruthy(): the matcher is given the value the call
\* returned, here the promise itself, and throws when it is falsy
ExpectToBeTruthy(call) == [actions |-> call.actions, threw |-> ~Truthy(call.value)]

\* expect(locator).toHaveCount(expectedCount), retried until its timeout
ExpectToHaveCount(s, expectedCount) ==
    [actions |-> <<[do |-> "count productinfo", ok |-> s.count = expectedCount]>>,
     threw |-> s.count # expectedCount]

\* ProductSteps.navigateToProductsPage; test.step runs its body and
\* rethrows what the body throws
navigateToProductsPage(s) == Then(navigateToURL(s), clickOnProductsLink(s))

\* ProductSteps.verifyProductsPageLoaded
verifyProductsPageLoaded(s) ==
    Then(ExpectToBeTruthy(isProductPage(s)), ExpectToBeTruthy(isAllProductsTextVisible(s)))

\* ProductSteps.searchForProduct
searchForProduct(s, searchTerm) ==
    Then(searchForProductOnPage(s, searchTerm), ExpectToBeTruthy(getSearchProductsText(s)))

\* ProductSteps.verifySearchResults
verifySearchResults(s, expectedProductName) == ExpectToHaveCount(s, DefaultExpectedCount)

\* the step a name stands for
StepOf(name, s, searchTerm) ==
    CASE name = "navigateToProductsPage" -> navigateToProductsPage(s)
      [] name = "verifyProductsPageLoaded" -> verifyProductsPageLoaded(s)
      [] name = "searchForProduct" -> searchForProduct(s, searchTerm)
      [] name = "verifySearchResults" -> verifySearchResults(s, searchTerm)

\* the awaits of the body of test('Verify Products Page'), method 1
IndividualSteps ==
    <<"navigateToProductsPage", "verifyProductsPageLoaded", "searchForProduct",
      "verifySearchResults">>

\* the awaits of ProductSteps.searchAndVerifyProduct, method 2
searchAndVerifyProduct ==
    <<"navigateToProductsPage", "verifyProductsPageLoaded", "searchForProduct",
      "verifySearchResults">>

\* the two test bodies and what each awaits
Methods == {"individual", "workflow"}
Awaits(m) == IF m = "individual" THEN IndividualSteps ELSE searchAndVerifyProduct

\* a body before its first step
NotStarted(searchTerm) == [searchTerm |-> searchTerm, pc |-> 0, threw |-> FALSE, actions |-> <<>>]
NoBodies == [m \in Methods |-> NotStarted("")]

(* --------------------------- the state machine ------------------------- *)

Init ==
    /\ console = <<>>
    /\ calls = <<>>
    /\ site = BlankSite
    /\ bodies = NoBodies
    /\ registry = <<>>
    /\ pending = <<>>

\* Invoke reusing the title of the test reported before, as a reporter
\* that keeps the last test case in a field would
Invoke_StaleTitle(test, result) ==
    LET stale == IF calls = <<>> THEN test
                 ELSE [test EXCEPT !.title = calls[Len(calls)].test.title]
        r == Run(stale, result)
    IN  /\ console' = console \o r.lines
        /\ calls' = Append(calls,
              [test |-> test, result |-> result, entered |-> r.entered,
               threw |-> r.threw, locals |-> r.locals,
               kept |-> (r.after = Args(test, result)),
               first |-> Len(console) + 1, count |-> Len(r.lines)])

\* one invocation of reporter.onTestEnd(test, result), from call to return:
\* the method has no await and no callback left behind.  The log keeps the
\* arguments as passed and whether they are the same on return (kept).
Invoke(test, result) ==
    LET r == Run(test, result) IN
    /\ console' = console \o r.lines
    /\ calls' = Append(calls,
          [test |-> test, result |-> result, entered |-> r.entered,
           threw |-> r.threw, locals |-> r.locals,
           kept |-> (r.after = Args(test, result)),
           first |-> Len(console) + 1, count |-> Len(r.lines)])

\* the runner calls reporter.onTestEnd(test, result)
OnTestEnd(test, result) ==
    /\ Len(calls) < MaxCalls
    /\ Invoke(test, result)
    /\ UNCHANGED <<site, bodies, registry, pending>>

Next == \E test \in TestCases, result \in Results : OnTestEnd(test, result)

\* the runner hands over test cases and results of its declared types
Spec == Init /\ [][Next]_vars

NextAny == \E test \in AnyTestCases, result \in Results : OnTestEnd(test, result)

\* the caller hands over any list contents
SpecAny == Init /\ [][NextAny]_vars

(* ------------------------- a run of several tests ---------------------- *)

\* how many completions the runner delivers in a run
MaxRun == 3

\* three different tests: the one of tests/api/GET.test.ts with its metadata,
\* an API test carrying only a tag, and the one of the steps guide
RunTests ==
    {[title |-> Str("Verify Products Page"),
      annotations |-> Arr(<<Ann(Str("Test ID"), Str("TC001")),
                            Ann(Str("Priority"), Str("P1")),
                            Ann(Str("Author"), Str("George Zyryanov")),
                            Ann(Str("Page"), Str("ProductsPage")),
                            Ann(Str("Feature"), Str("ProductSearch")),
                            Ann(Str("Jira Ticket"),
                                Str("https://jira.example.com/browse/JIRA-123"))>>),
      tags |-> Undefined],
     [title |-> Str("getAllProducts"),
      annotations |-> Arr(<<>>),
      tags |-> Arr(<<Str("@API")>>)],
     [title |-> Str("User can add product to cart"),
      annotations |-> Arr(<<Ann(Str("Test ID"), Str("SHOP001")),
                            Ann(Str("Priority"), Str("P1")),
                            Ann(Str("Author"), Str("Test Engineer")),
                            Ann(Str("Page"), Str("ProductsPage")),
                            Ann(Str("Feature"), Str("ShoppingCart"))>>),
      tags |-> Arr(<<Str("@Smoke")>>)]}

RunResults == {[status |-> s] : s \in {Str("passed"), Str("failed"), Str("")}}

\* a test ends in some worker and the runner calls reporter.onTestEnd for
\* it; completions arrive in any order, and a retried test arrives again
Completion(test, result) ==
    /\ Len(calls) < MaxRun
    /\ Invoke(test, result)
    /\ UNCHANGED <<site, bodies, registry, pending>>

NextRun == \E test \in RunTests, result \in RunResults : Completion(test, result)

\* the reporter over a run of tests completing in any order
SpecRun == Init /\ [][NextRun]_vars

(* ------------------- the event loop of the reporter process ------------ *)

\* onTestEnd with an await between its first and its second console.log
Segments_AwaitAfterLine1(lines) ==
    IF Len(lines) < 2 THEN <<lines>> ELSE <<SubSeq(lines, 1, 1), Tail(lines)>>

\* The runs of onTestEnd between its awaits, each with the lines it
\* writes: the method is not async, has no await and leaves no callback
\* behind, so it is a single run with all its console.log calls.
Segments(lines) == <<lines>>

\* the completions that arrive: the test with metadata and the API test,
\* passed (two lines) or failed (three lines)
LoopTests == {t \in RunTests : t.title # Str("User can add product to cart")}
LoopResults == {[status |-> s] : s \in {Str("passed"), Str("failed")}}

\* completions that have arrived so far, handled or not
Arrived == Len(calls) + Cardinality({k \in 1..Len(pending) : pending[k].call = 0})

\* a test ends in a worker and its completion arrives at the runner
Deliver(test, result) ==
    /\ Arrived < MaxRun
    /\ pending' = Append(pending,
          [test |-> test, result |-> result, arrival |-> Arrived + 1,
           call |-> 0, rest |-> <<>>])
    /\ UNCHANGED <<console, calls, site, bodies, registry>>

\* The event loop runs a waiting task up to its next await or its end.
\* For a completion that is the call reporter.onTestEnd(test, result); a
\* call that stopped at an await would wait with what is left of it.
\* Completions of different workers are handled in any order.
RunTask(k) ==
    LET t == pending[k]
        starting == t.call = 0
        r == Run(t.test, t.result)
        segments == IF starting THEN Segments(r.lines) ELSE t.rest
        written == Head(segments)
        i == IF starting THEN Len(calls) + 1 ELSE t.call
        at == [j \in 1..Len(written) |-> Len(console) + j]
        others == SubSeq(pending, 1, k - 1) \o SubSeq(pending, k + 1, Len(pending))
    IN  /\ console' = console \o written
        /\ calls' = IF starting
                     THEN Append(calls,
                            [test |-> t.test, result |-> t.result, entered |-> r.entered,
                             threw |-> r.threw, locals |-> r.locals,
                             kept |-> (r.after = Args(t.test, t.result)),
                             first |-> Len(console) + 1, count |-> Len(written),
                             arrival |-> t.arrival, at |-> at])
                     ELSE [calls EXCEPT ![i].count = @ + Len(written), ![i].at = @ \o at]
        /\ pending' = IF Tail(segments) = <<>> THEN others
                       ELSE others \o <<[t EXCEPT !.call = i, !.rest = Tail(segments)]>>
        /\ UNCHANGED <<site, bodies, registry>>

NextLoop ==
    \/ \E test \in LoopTests, result \in LoopResults : Deliver(test, result)
    \/ \E k \in 1..Len(pending) : RunTask(k)

\* the reporter process with completions of parallel workers arriving while
\* others wait to be reported
SpecLoop == Init /\ [][NextLoop]_vars

(* ---------------------------- a test body ----------------------------- *)

\* Both bodies start on fresh pages of the same site with the same search
\* term.
InitSteps ==
    /\ console = <<>>
    /\ calls = <<>>
    /\ registry = <<>>
    /\ pending = <<>>
    /\ site \in Sites
    /\ \E searchTerm \in SearchTerms : bodies = [m \in Methods |-> NotStarted(searchTerm)]

\* body m awaits its next step, which is the step called name: the step
\* runs to its end or to its first rejection, which leaves the body
AwaitStep(m, name) ==
    LET b == bodies[m]
        r == StepOf(name, site, b.searchTerm)
    IN  /\ ~b.threw
        /\ b.pc < Len(Awaits(m))
        /\ Awaits(m)[b.pc + 1] = name
        /\ bodies' = [bodies EXCEPT ![m] =
               [searchTerm |-> b.searchTerm, pc |-> b.pc + 1, threw |-> r.threw,
                actions |-> b.actions \o r.actions]]
        /\ UNCHANGED <<console, calls, site, registry, pending>>

NavigateToProductsPage(m) == AwaitStep(m, "navigateToProductsPage")
VerifyProductsPageLoaded(m) == AwaitStep(m, "verifyProductsPageLoaded")
SearchForProduct(m) == AwaitStep(m, "searchForProduct")
VerifySearchResults(m) == AwaitStep(m, "verifySearchResults")

NextSteps ==
    \E m \in Methods :
        \/ NavigateToProductsPage(m)
        \/ VerifyProductsPageLoaded(m)
        \/ SearchForProduct(m)
        \/ VerifySearchResults(m)

\* the two test bodies against every site
SpecSteps == InitSteps /\ [][NextSteps]_vars

(* ------------------------ registration with metadata ------------------ *)

\* how many test(...) registrations the test file makes
MaxTests == 2

\* the metadata fields that become annotations, with their labels, in the
\* order they are emitted
MetadataLabels ==
    <<[field |-> "testId", label |-> "Test ID"],
      [field |-> "testName", label |-> "Test Name"],
      [field |-> "priority", label |-> "Priority"],
      [field |-> "author", label |-> "Author"],
      [field |-> "pageUnderTest", label |-> "Page"],
      [field |-> "featureUnderTest", label |-> "Feature"],
      [field |-> "linkToJiraTicket", label |-> "Jira Ticket"]>>

\* the fields that also become tags, "@" before the value
MetadataTags == <<"testId", "priority", "pageUnderTest">>

RequiredFields == {"testId", "testName"}
OptionalFields == {"priority", "author", "pageUnderTest", "featureUnderTest", "linkToJiraTicket"}

\* createTestMetadata accepting every metadata
createTestMetadata_NoCheck(metadata) ==
    [annotation |->
        [k \in 1..Len(MetadataLabels) |->
            Ann(Str(MetadataLabels[k].label), metadata[MetadataLabels[k].field])],
     tag |-> [k \in 1..Len(MetadataTags) |-> Str("@" \o TemplateStr(metadata[MetadataTags[k]]))]]

\* createTestMetadata(metadata): the details object for test(title, details,
\* body), or the error it throws for metadata without a test id or name
createTestMetadata(metadata) ==
    IF \E f \in RequiredFields : ~Truthy(metadata[f]) THEN Throw
    ELSE LET given(e) == Truthy(metadata[e.field])
             labels == SelectSeq(MetadataLabels, given)
             tagged(f) == Truthy(metadata[f])
             tagFields == SelectSeq(MetadataTags, tagged)
         IN  [annotation |->
                 [k \in 1..Len(labels) |->
                     Ann(Str(labels[k].label), metadata[labels[k].field])],
              tag |-> [k \in 1..Len(tagFields) |-> Str("@" \o metadata[tagFields[k]].v)]]

\* the metadata of test('Verify Products Page') in tests/api/GET.test.ts
ProductsMetadata ==
    [testId |-> Str("TC001"),
     testName |-> Str("Verify Products Search Functionality"),
     priority |-> Str("P1"),
     author |-> Str("George Zyryanov"),
     pageUnderTest |-> Str("ProductsPage"),
     featureUnderTest |-> Str("ProductSearch"),
     linkToJiraTicket |-> Str("https://jira.example.com/browse/JIRA-123")]

\* the optional fields a test gives
GivenFields ==
    {OptionalFields, {}, {"priority", "author"}, {"pageUnderTest"}, {"priority"},
     {"pageUnderTest", "featureUnderTest", "linkToJiraTicket"}}

\* metadata as tests give it: a required field given, empty or absent; the
\* optional fields of one of the selections given, the others all absent
\* or all empty
Metadatas ==
    {[f \in DOMAIN ProductsMetadata |->
         IF f = "testId" THEN id
         ELSE IF f = "testName" THEN name
         ELSE IF f \in given THEN ProductsMetadata[f] ELSE blank] :
       id \in {ProductsMetadata.testId, Str(""), Undefined},
       name \in {ProductsMetadata.testName, Str(""), Undefined},
       given \in GivenFields,
       blank \in {Undefined, Str("")}}

\* the test case the runner keeps for test(title, details, body)
TestCaseOf(title, details) ==
    [title |-> Str(title), annotations |-> Arr(details.annotation), tags |-> Arr(details.tag)]

\* a registration has thrown: the test file did not load
LoadFailed == \E k \in 1..Len(registry) : registry[k].state = "rejected"

\* The test file is loaded: test(title, createTestMetadata(metadata), body)
\* is evaluated.  An error thrown by createTestMetadata leaves the file,
\* no test(...) after it is reached, and the runner runs none of its tests.
Register(title, metadata) ==
    LET details == createTestMetadata(metadata) IN
    /\ Len(registry) < MaxTests
    /\ \A k \in 1..Len(registry) : registry[k].state = "registered"
    /\ registry' = Append(registry,
          [metadata |-> metadata,
           state |-> IF details = Throw THEN "rejected" ELSE "registered",
           test |-> IF details = Throw THEN Undefined ELSE TestCaseOf(title, details),
           status |-> Undefined, call |-> 0])
    /\ UNCHANGED <<console, calls, site, bodies, pending>>

\* the worker runs the body of the next test of the loaded file, in file
\* order, with the browser fixtures; the body ends with a status
RunBody(k, status) ==
    /\ ~LoadFailed
    /\ registry[k].state = "registered"
    /\ \A j \in 1..(k - 1) : registry[j].state = "reported"
    /\ registry' = [registry EXCEPT ![k].state = "ran", ![k].status = status]
    /\ UNCHANGED <<console, calls, site, bodies, pending>>

\* the runner reports the finished test: reporter.onTestEnd(test, result)
Report(k) ==
    /\ registry[k].state = "ran"
    /\ Invoke(registry[k].test, [status |-> registry[k].status])
    /\ registry' = [registry EXCEPT ![k].state = "reported", ![k].call = Len(calls) + 1]
    /\ UNCHANGED <<site, bodies, pending>>

NextMeta ==
    \/ \E metadata \in Metadatas : Register("Verify Products Page", metadata)
    \/ \E k \in 1..Len(registry) :
          \/ \E status \in {Str("passed"), Str("failed")} : RunBody(k, status)
          \/ Report(k)

\* registration, run and report of the tests of one file
SpecMeta == Init /\ [][NextMeta]_vars

(* ------------------------ vocabulary of the claims --------------------- *)

Invocations == 1..Len(calls)

\* the lines invocation i wrote
Block(i) == SubSeq(console, calls[i].first, calls[i].first + calls[i].count - 1)

\* result.status of a call is a non-empty string
HasStatus(c) == c.result.status.t = "string" /\ c.result.status.v # ""

\* the lists of a call's test case, an absent list read as the empty one
AnnotationsOf(c) == IF c.test.annotations.t = "array" THEN c.test.annotations.v ELSE <<>>
TagsOf(c) == IF c.test.tags.t = "array" THEN c.test.tags.v ELSE <<>>

(* -------------------------------- C1 ----------------------------------- *)

\* C1: onTestEnd writes to the console exactly when result.status is truthy:
\* nothing for an undefined or empty status, its report block (two or three
\* lines, the first two being the metadata lines) for every non-empty one.
C1_WritesIffStatusTruthy ==
    \A i \in Invocations :
        LET c == calls[i] IN
        /\ c.result.status \in {Undefined, Str("")} => c.count = 0 /\ Block(i) = <<>>
        /\ HasStatus(c) =>
              /\ c.count \in {2, 3}
              /\ Len(Block(i)) = c.count
              /\ StartsWith(Block(i)[2], "   Page: ")
        /\ ~c.threw

\* an invocation with the empty status for a test that carries metadata
\* has been made and the console is still empty
C1_Witness ==
    \E i \in Invocations :
        /\ calls[i].result.status = Str("")
        /\ AnnotationsOf(calls[i]) # <<>>
        /\ console = <<>>

(* -------------------------------- C2 ----------------------------------- *)

\* C2: an invocation with a truthy status writes exactly 3 lines when the
\* status is "failed" and exactly 2 otherwise; the separator "   ---" is the
\* third line, after the two metadata lines, and no other status gets one.
C2_LineCount ==
    \A i \in Invocations :
        LET c == calls[i] IN
        HasStatus(c) =>
            /\ Len(Block(i)) = (IF c.result.status.v = "failed" THEN 3 ELSE 2)
            /\ c.result.status.v = "failed" => Block(i)[3] = "   ---"
            /\ \A k \in 1..Len(Block(i)) : Block(i)[k] = "   ---" => k = 3

\* a timed-out test has been reported in two lines
C2_Witness ==
    \E i \in Invocations :
        /\ calls[i].result.status = Str("timedOut")
        /\ Len(Block(i)) = 2

(* -------------------------------- C3 ----------------------------------- *)

\* the glyph the specification assigns to a status
C3_Glyph(s) ==
    IF s = "passed" THEN "<U+2705>"
    ELSE IF s = "failed" THEN "<U+274C>"
    ELSE IF s = "timedOut" THEN "<U+23F1><U+FE0F>"
    ELSE IF s = "skipped" THEN "<U+23ED><U+FE0F>"
    ELSE "<U+2753>"

\* C3: passed, failed, timedOut and skipped map to their own glyph, every
\* other truthy status to the question mark, and line 1 of a block starts
\* with the glyph of the result.status of the same invocation.
C3_StatusGlyph ==
    \A i \in Invocations :
        LET c == calls[i] IN
        HasStatus(c) =>
            /\ c.locals.status = Str(C3_Glyph(c.result.status.v))
            /\ StartsWith(Block(i)[1], C3_Glyph(c.result.status.v) \o " [")

\* an interrupted test has been reported under the question-mark glyph
C3_Witness ==
    \E i \in Invocations :
        /\ calls[i].result.status = Str("interrupted")
        /\ StartsWith(Block(i)[1], "<U+2753> [")

(* ----------------- lookups as the specification words them ------------- *)

Min(S) == CHOOSE m \in S : \A n \in S : m <= n

NonEmpty(x) == x.t = "string" /\ x.v # ""

\* the positions of the annotations of a type, and of the tags with a prefix
TypeIdx(c, label) == {k \in 1..Len(AnnotationsOf(c)) : AnnotationsOf(c)[k].type = Str(label)}
PrefixIdx(c, prefix) == {k \in 1..Len(TagsOf(c)) : StartsWith(TagsOf(c)[k].v, prefix)}

\* the description of the first annotation of a type, Undefined without one
FirstDescription(c, label) ==
    IF TypeIdx(c, label) = {} THEN Undefined
    ELSE AnnotationsOf(c)[Min(TypeIdx(c, label))].description

\* the non-empty descriptions of all the annotations of a type
Descriptions(c, label) ==
    {AnnotationsOf(c)[k].description : k \in TypeIdx(c, label)} \ {Undefined, Str("")}

\* the first tag with a prefix
FirstTag(c, prefix) == TagsOf(c)[Min(PrefixIdx(c, prefix))].v

EndsWith(s, suffix) ==
    Len(s) >= Len(suffix) /\ SubSeq(s, Len(s) - Len(suffix) + 1, Len(s)) = suffix

\* the fields with a tag fallback: local, annotation type, tag prefix
TagFields == {<<"testId", "Test ID", "@TC">>, <<"priority", "Priority", "@P">>,
              <<"page", "Page", "@">>}

(* -------------------------------- C4 ----------------------------------- *)

\* C4 as stated: whenever some annotation of the matching type with a
\* non-empty description is present, testId, priority and page are such a
\* description, whatever the tags.
C4_AnyMatchingAnnotationWins ==
    \A i \in Invocations :
        LET c == calls[i] IN
        HasStatus(c) =>
            \A f \in TagFields :
                Descriptions(c, f[2]) # {} => c.locals[f[1]] \in Descriptions(c, f[2])

\* C4 (amended): whenever the first annotation of the matching type has a
\* non-empty description, testId, priority and page are that description
\* whatever the tags, and that is what the two lines show.
C4_FirstAnnotationBeforeTags ==
    \A i \in Invocations :
        LET c == calls[i] IN
        HasStatus(c) =>
            /\ \A f \in TagFields :
                  NonEmpty(FirstDescription(c, f[2])) =>
                      c.locals[f[1]] = FirstDescription(c, f[2])
            /\ NonEmpty(FirstDescription(c, "Test ID")) =>
                  StartsWith(Block(i)[1], C3_Glyph(c.result.status.v) \o " [" \o
                                          FirstDescription(c, "Test ID").v \o "][")
            /\ NonEmpty(FirstDescription(c, "Priority")) =>
                  EndsWith(Block(i)[1], "][" \o FirstDescription(c, "Priority").v \o "] " \o
                                        c.test.title.v)
            /\ NonEmpty(FirstDescription(c, "Page")) =>
                  StartsWith(Block(i)[2], "   Page: " \o FirstDescription(c, "Page").v \o
                                          " | Feature: ")

\* a test with the annotation Test ID "TC007" and the tag "@TC042" has been
\* reported with test id TC007
C4_Witness ==
    \E i \in Invocations :
        /\ HasStatus(calls[i])
        /\ FirstDescription(calls[i], "Test ID") = Str("TC007")
        /\ PrefixIdx(calls[i], "@TC") # {}
        /\ calls[i].locals.testId = Str("TC007")
        /\ calls[i].count >= 2

(* -------------------------------- C5 ----------------------------------- *)

\* no value from the annotations, none from the tags
NoAnnotationValue(c, label) == ~NonEmpty(FirstDescription(c, label))
NoTagValue(c, prefix) == PrefixIdx(c, prefix) = {}

\* C5 as stated: without a value from an annotation or a tag, author and
\* page are "Unknown" and testId, priority, feature and jiraTicket are
\* undefined.
C5_UnknownForAuthorAndPageOnly ==
    \A i \in Invocations :
        LET c == calls[i] IN
        HasStatus(c) =>
            /\ NoAnnotationValue(c, "Author") => c.locals.author = Str("Unknown")
            /\ NoAnnotationValue(c, "Page") /\ NoTagValue(c, "@") =>
                  c.locals.page = Str("Unknown")
            /\ NoAnnotationValue(c, "Test ID") /\ NoTagValue(c, "@TC") =>
                  c.locals.testId = Undefined
            /\ NoAnnotationValue(c, "Priority") /\ NoTagValue(c, "@P") =>
                  c.locals.priority = Undefined
            /\ NoAnnotationValue(c, "Feature") => c.locals.feature = Undefined
            /\ NoAnnotationValue(c, "Jira Ticket") => c.locals.jiraTicket = Undefined

\* C5 (amended): without a non-empty value from the first matching
\* annotation and without a tag carrying the prefix, author, page and
\* feature are "Unknown" and testId and priority are undefined; jiraTicket
\* is what the first Jira Ticket annotation holds, undefined or empty.
C5_Defaults ==
    \A i \in Invocations :
        LET c == calls[i] IN
        HasStatus(c) =>
            /\ NoAnnotationValue(c, "Author") => c.locals.author = Str("Unknown")
            /\ NoAnnotationValue(c, "Page") /\ NoTagValue(c, "@") =>
                  c.locals.page = Str("Unknown")
            /\ NoAnnotationValue(c, "Feature") => c.locals.feature = Str("Unknown")
            /\ NoAnnotationValue(c, "Test ID") /\ NoTagValue(c, "@TC") =>
                  c.locals.testId = Undefined
            /\ NoAnnotationValue(c, "Priority") /\ NoTagValue(c, "@P") =>
                  c.locals.priority = Undefined
            /\ NoAnnotationValue(c, "Jira Ticket") =>
                  /\ c.locals.jiraTicket = FirstDescription(c, "Jira Ticket")
                  /\ c.locals.jiraTicket \in {Undefined, Str("")}

\* a test without annotations and tags has been reported: no test id, no
\* priority, no Jira ticket, and "Unknown" three times
C5_Witness ==
    \E i \in Invocations :
        /\ HasStatus(calls[i])
        /\ AnnotationsOf(calls[i]) = <<>>
        /\ TagsOf(calls[i]) = <<>>
        /\ calls[i].locals.testId = Undefined
        /\ calls[i].locals.feature = Str("Unknown")
        /\ Block(i)[2] = "   Page: Unknown | Feature: Unknown | Author: Unknown"

(* -------------------------------- C6 ----------------------------------- *)

\* C6: a test with a truthy status other than "failed", no tags, and Test
\* ID, Priority and Author annotations but no Page, Feature or Jira Ticket
\* annotation is reported in exactly two lines, the second being
\* "   Page: Unknown | Feature: Unknown | Author: <author>".
C6_PageAndFeatureUnknown ==
    \A i \in Invocations :
        LET c == calls[i] IN
        /\ HasStatus(c)
        /\ c.result.status.v # "failed"
        /\ TagsOf(c) = <<>>
        /\ NonEmpty(FirstDescription(c, "Test ID"))
        /\ NonEmpty(FirstDescription(c, "Priority"))
        /\ NonEmpty(FirstDescription(c, "Author"))
        /\ TypeIdx(c, "Page") = {}
        /\ TypeIdx(c, "Feature") = {}
        /\ TypeIdx(c, "Jira Ticket") = {}
        => /\ Len(Block(i)) = 2
           /\ Block(i)[2] = "   Page: Unknown | Feature: Unknown | Author: " \o
                             FirstDescription(c, "Author").v

\* the passed test TC007 / P2 / Jane has been reported
C6_Witness ==
    \E i \in Invocations :
        /\ calls[i].result.status = Str("passed")
        /\ TagsOf(calls[i]) = <<>>
        /\ Len(AnnotationsOf(calls[i])) = 3
        /\ FirstDescription(calls[i], "Author") = Str("Jane")
        /\ Block(i) = <<"<U+2705> [TC007][P2] " \o calls[i].test.title.v,
                        "   Page: Unknown | Feature: Unknown | Author: Jane">>

(* -------------------------------- C7 ----------------------------------- *)

\* line 2 up to the author
Line2Base(c) ==
    "   Page: " \o c.locals.page.v \o " | Feature: " \o c.locals.feature.v \o
    " | Author: " \o c.locals.author.v

\* C7 as stated: line 2 is the page, feature and author segment, followed
\* by " | Jira: <jiraTicket>" exactly when some Jira Ticket annotation
\* with a non-empty description is present.
C7_JiraIffAnyAnnotation ==
    \A i \in Invocations :
        LET c == calls[i] IN
        HasStatus(c) =>
            IF Descriptions(c, "Jira Ticket") = {}
            THEN Block(i)[2] = Line2Base(c)
            ELSE \E d \in Descriptions(c, "Jira Ticket") :
                    Block(i)[2] = Line2Base(c) \o " | Jira: " \o d.v

\* C7 (amended): line 2 is the page, feature and author segment, followed
\* by " | Jira: <jiraTicket>" exactly when the first Jira Ticket annotation
\* has a non-empty description, whatever the tags; a failed test whose
\* first Jira Ticket annotation is "JIRA-99" gets three lines, the second
\* ending with "| Jira: JIRA-99".
C7_JiraIffFirstAnnotation ==
    \A i \in Invocations :
        LET c == calls[i] IN
        HasStatus(c) =>
            /\ Block(i)[2] = Line2Base(c) \o
                  (IF NonEmpty(FirstDescription(c, "Jira Ticket"))
                   THEN " | Jira: " \o FirstDescription(c, "Jira Ticket").v
                   ELSE "")
            /\ c.result.status.v = "failed" /\
               FirstDescription(c, "Jira Ticket") = Str("JIRA-99") =>
                  /\ Len(Block(i)) = 3
                  /\ EndsWith(Block(i)[2], "| Jira: JIRA-99")

\* a failed test with the Jira Ticket annotation "JIRA-99" has been
\* reported in three lines
C7_Witness ==
    \E i \in Invocations :
        /\ calls[i].result.status = Str("failed")
        /\ FirstDescription(calls[i], "Jira Ticket") = Str("JIRA-99")
        /\ Len(Block(i)) = 3
        /\ EndsWith(Block(i)[2], "| Jira: JIRA-99")

(* -------------------------------- C8 ----------------------------------- *)

\* C8: line 1 of a block is "<glyph> [<testId>][<priority>] <title>" with
\* the glyph of result.status, the test id and priority resolved in the
\* same invocation, and test.title of the same test case.
C8_Line1 ==
    \A i \in Invocations :
        LET c == calls[i] IN
        HasStatus(c) =>
            Block(i)[1] = C3_Glyph(c.result.status.v) \o " [" \o
                          (IF c.locals.testId = Undefined THEN "undefined"
                           ELSE c.locals.testId.v) \o "][" \o
                          (IF c.locals.priority = Undefined THEN "undefined"
                           ELSE c.locals.priority.v) \o "] " \o c.test.title.v

\* the skipped test "getAllProducts" with TC007 and P2 has been reported
C8_Witness ==
    \E i \in Invocations :
        /\ calls[i].test.title = Str("getAllProducts")
        /\ calls[i].locals.testId = Str("TC007")
        /\ calls[i].locals.priority = Str("P2")
        /\ Block(i)[1] = "<U+23ED><U+FE0F> [TC007][P2] getAllProducts"

(* -------------------------------- C9 ----------------------------------- *)

\* C9: a value resolved from the tags is the rest of the first matching
\* tag after the prefix, so prefix and value together are the tag (a bare
\* "@" gives page no value).  Without
\* annotations and with the tags "@TC042" and "@P1", testId is "042", not
\* "TC042", and priority is "1".
C9_TagValueIsSuffix ==
    \A i \in Invocations :
        LET c == calls[i] IN
        HasStatus(c) =>
            /\ \A f \in TagFields :
                  NoAnnotationValue(c, f[2]) /\ ~NoTagValue(c, f[3]) /\
                  (f[1] = "page" => FirstTag(c, "@") # "@") =>
                      /\ c.locals[f[1]].t = "string"
                      /\ f[3] \o c.locals[f[1]].v = FirstTag(c, f[3])
            /\ AnnotationsOf(c) = <<>> /\ TagsOf(c) = <<Str("@TC042"), Str("@P1")>> =>
                  /\ c.locals.testId = Str("042")
                  /\ c.locals.priority = Str("1")
                  /\ StartsWith(Block(i)[1], C3_Glyph(c.result.status.v) \o " [042][1] ")

\* a test without annotations and with the tags "@TC042" and "@P1" has been
\* reported with test id 042
C9_Witness ==
    \E i \in Invocations :
        /\ HasStatus(calls[i])
        /\ AnnotationsOf(calls[i]) = <<>>
        /\ TagsOf(calls[i]) = <<Str("@TC042"), Str("@P1")>>
        /\ calls[i].locals.testId = Str("042")

(* -------------------------------- C10 ---------------------------------- *)

\* C10: onTestEnd never raises, whatever test case and result it is given:
\* absent lists, lookup misses, a null or undefined annotation and a tag
\* that is no string all leave it returning normally.
C10_NeverRaises == \A i \in Invocations : ~calls[i].threw

(* -------------------------------- C11 ---------------------------------- *)

\* what the specification resolves for a field from a call's own test case
ExpectedTagField(c, label, prefix) ==
    IF NonEmpty(FirstDescription(c, label)) THEN FirstDescription(c, label)
    ELSE IF PrefixIdx(c, prefix) = {} THEN Undefined
    ELSE Str(Substring(FirstTag(c, prefix), Len(prefix)))

ExpectedPage(c) ==
    IF NonEmpty(ExpectedTagField(c, "Page", "@")) THEN ExpectedTagField(c, "Page", "@")
    ELSE Str("Unknown")

ExpectedOrUnknown(c, label) ==
    IF NonEmpty(FirstDescription(c, label)) THEN FirstDescription(c, label)
    ELSE Str("Unknown")

Shown(x) == IF x = Undefined THEN "undefined" ELSE x.v

\* the block the specification gives a call, from its own arguments alone
ExpectedBlock(c) ==
    IF ~HasStatus(c) THEN <<>>
    ELSE <<C3_Glyph(c.result.status.v) \o " [" \o
           Shown(ExpectedTagField(c, "Test ID", "@TC")) \o "][" \o
           Shown(ExpectedTagField(c, "Priority", "@P")) \o "] " \o c.test.title.v,
           "   Page: " \o ExpectedPage(c).v \o
           " | Feature: " \o ExpectedOrUnknown(c, "Feature").v \o
           " | Author: " \o ExpectedOrUnknown(c, "Author").v \o
           (IF NonEmpty(FirstDescription(c, "Jira Ticket"))
            THEN " | Jira: " \o FirstDescription(c, "Jira Ticket").v ELSE "")>> \o
         (IF c.result.status.v = "failed" THEN <<"   ---">> ELSE <<>>)

\* the texts a test case carries: its title, its annotations' descriptions
\* and its tags without the "@"
OwnValues(test) ==
    LET anns == IF test.annotations.t = "array" THEN test.annotations.v ELSE <<>>
        tags == IF test.tags.t = "array" THEN test.tags.v ELSE <<>>
    IN  {test.title.v} \cup {anns[k].description.v : k \in 1..Len(anns)} \cup
        {Substring(tags[k].v, 1) : k \in 1..Len(tags)}

Contains(s, sub) == \E k \in 1..(Len(s) - Len(sub) + 1) : SubSeq(s, k, k + Len(sub) - 1) = sub

\* C11: whatever the order in which the completions of different tests
\* arrive, every invocation writes the full block of its own test case and
\* result, and no text that only another test of the run carries shows up
\* in it.
C11_OwnBlock ==
    \A i \in Invocations :
        /\ Block(i) = ExpectedBlock(calls[i])
        /\ \A j \in Invocations :
              \A v \in OwnValues(calls[j].test) \ OwnValues(calls[i].test) :
                  \A k \in 1..Len(Block(i)) : ~Contains(Block(i)[k], v)

\* three different tests have been reported one after another
C11_Witness ==
    /\ Len(calls) >= 3
    /\ \A i \in 1..3 : HasStatus(calls[i]) /\ Len(Block(i)) >= 2
    /\ calls[1].test # calls[2].test
    /\ calls[1].test # calls[3].test
    /\ calls[2].test # calls[3].test

(* -------------------------------- C12 ---------------------------------- *)

AnnotationFields ==
    {<<"testId", "Test ID">>, <<"priority", "Priority">>, <<"author", "Author">>,
     <<"page", "Page">>, <<"feature", "Feature">>, <<"jiraTicket", "Jira Ticket">>}

\* what a field resolves to from the tags and the default alone
WithoutAnnotation(c, name) ==
    CASE name = "testId" ->
            IF NoTagValue(c, "@TC") THEN Undefined
            ELSE Str(Substring(FirstTag(c, "@TC"), 3))
      [] name = "priority" ->
            IF NoTagValue(c, "@P") THEN Undefined
            ELSE Str(Substring(FirstTag(c, "@P"), 2))
      [] name = "page" ->
            IF NoTagValue(c, "@") \/ FirstTag(c, "@") = "@" THEN Str("Unknown")
            ELSE Str(Substring(FirstTag(c, "@"), 1))
      [] name \in {"author", "feature"} -> Str("Unknown")

\* C16: of several annotations of one type only the first in list order is
\* consulted.  With a non-empty description it is the value; with an empty
\* or missing description the value is what the tags and the default give
\* (for the Jira ticket: no value, and no Jira segment), never the
\* description of a later annotation of the type.
C16_FirstAnnotationOnly ==
    \A i \in Invocations :
        LET c == calls[i] IN
        HasStatus(c) =>
            \A f \in AnnotationFields :
                TypeIdx(c, f[2]) # {} =>
                    IF NonEmpty(FirstDescription(c, f[2]))
                    THEN c.locals[f[1]] = FirstDescription(c, f[2])
                    ELSE IF f[1] = "jiraTicket"
                    THEN /\ c.locals.jiraTicket = FirstDescription(c, f[2])
                         /\ Block(i)[2] = Line2Base(c)
                    ELSE c.locals[f[1]] = WithoutAnnotation(c, f[1])

\* a test whose first "Test ID" annotation is empty and whose second is
\* "TC007" has been reported with the id of its tag "@TC042"
C16_Witness ==
    \E i \in Invocations :
        /\ HasStatus(calls[i])
        /\ Cardinality(TypeIdx(calls[i], "Test ID")) = 2
        /\ FirstDescription(calls[i], "Test ID") = Str("")
        /\ Descriptions(calls[i], "Test ID") = {Str("TC007")}
        /\ TagsOf(calls[i]) = <<Str("@TC042"), Str("@P1")>>
        /\ calls[i].locals.testId = Str("042")
        /\ calls[i].locals.author = Str("Jane")

(* -------------------------------- C17 ---------------------------------- *)

\* the default a field takes when nothing resolves it
Absent(name) == IF name = "page" THEN Str("Unknown") ELSE Undefined

NoAtSuffix(c) == \A k \in PrefixIdx(c, "@") : TagsOf(c)[k].v = "@"

\* C20 as stated: without a non-empty "Page" annotation, page is the suffix
\* of the first tag starting with "@", and it is "Unknown" only when no tag
\* has a non-empty suffix after "@".
C20_UnknownOnlyWithoutAtSuffix ==
    \A i \in Invocations :
        LET c == calls[i] IN
        HasStatus(c) /\ NoAnnotationValue(c, "Page") =>
            /\ ~NoAtSuffix(c) => c.locals.page # Str("Unknown")
            /\ c.locals.page = Str("Unknown") => NoAtSuffix(c)

\* C20: without a non-empty "Page" annotation, page is the suffix of the
\* first tag starting with "@", whatever that tag encodes ("TC042" for the
\* tags "@TC042", "@P1"); it is "Unknown" when no tag starts with "@" and
\* when the first such tag is "@" itself, even if a later tag has text
\* after its "@", and otherwise it is the text after that first tag's "@".
C20_PageFromFirstAtTag ==
    \A i \in Invocations :
        LET c == calls[i] IN
        HasStatus(c) /\ NoAnnotationValue(c, "Page") =>
            /\ NoTagValue(c, "@") => c.locals.page = Str("Unknown")
            /\ ~NoTagValue(c, "@") /\ FirstTag(c, "@") = "@" =>
                  c.locals.page = Str("Unknown")
            /\ ~NoTagValue(c, "@") /\ FirstTag(c, "@") # "@" =>
                  "@" \o c.locals.page.v = FirstTag(c, "@")
            /\ AnnotationsOf(c) = <<>> /\ TagsOf(c) = <<Str("@TC042"), Str("@P1")>> =>
                  /\ c.locals.page = Str("TC042")
                  /\ StartsWith(Block(i)[2], "   Page: TC042 | ")

\* a test without annotations and with the tags "@TC042", "@P1" has been
\* reported with page TC042
C20_Witness ==
    \E i \in Invocations :
        /\ HasStatus(calls[i])
        /\ AnnotationsOf(calls[i]) = <<>>
        /\ TagsOf(calls[i]) = <<Str("@TC042"), Str("@P1")>>
        /\ calls[i].locals.page = Str("TC042")
        /\ Len(Block(i)) >= 2

(* -------------------------------- C13 ---------------------------------- *)

\* body m has awaited its k-th step and the step returned normally
Completed(m, k) == bodies[m].pc > k \/ (bodies[m].pc = k /\ ~bodies[m].threw)

\* C13: a verification step completes only when its verification held:
\* verifyProductsPageLoaded returns normally only with "/products" in the
\* page URL and the "All Products" heading visible, and searchForProduct
\* only with the "Searched Products" heading visible.
C13_StepCompletesOnlyIfVerified ==
    \A m \in Methods :
        /\ Completed(m, 2) => Includes(site.url, "/products") /\ site.allProducts
        /\ Completed(m, 3) => site.searched

(* -------------------------------- C18 ---------------------------------- *)

\* the place of a browser action in the workflow, and the step it belongs to
RankOf(do) ==
    CASE do = "goto" -> 1
      [] do = "waitFor Consent" -> 2
      [] do = "click Consent" -> 3
      [] do = "click Products" -> 4
      [] do = "isVisible All Products" -> 5
      [] do = "fill search_product" -> 6
      [] do = "click submit_search" -> 7
      [] do = "isVisible Searched Products" -> 8
      [] do = "count productinfo" -> 9

StepNoOf(do) ==
    IF RankOf(do) <= 4 THEN 1 ELSE IF RankOf(do) = 5 THEN 2
    ELSE IF RankOf(do) <= 8 THEN 3 ELSE 4

\* C18: searchAndVerifyProduct acts in the order navigate and click
\* Products, verify the page, fill and click search, verify the results,
\* each step only once the one before has returned; an action that fails
\* is the last one and the caller gets the failure; and after as many
\* steps the four individual calls have issued the same actions with the
\* same outcome.
C18_WorkflowInOrder ==
    /\ \A m \in Methods :
          LET b == bodies[m]
              a == b.actions
          IN  /\ \A k \in 1..(Len(a) - 1) :
                    RankOf(a[k].do) < RankOf(a[k + 1].do) /\ a[k].ok
              /\ \A k \in 1..Len(a) : StepNoOf(a[k].do) <= b.pc
              /\ b.threw <=> (a # <<>> /\ ~a[Len(a)].ok)
              /\ b.threw => StepNoOf(a[Len(a)].do) = b.pc
              /\ ~b.threw => \A n \in 1..b.pc : \E k \in 1..Len(a) : StepNoOf(a[k].do) = n
    /\ bodies["workflow"].pc = bodies["individual"].pc =>
          /\ bodies["workflow"].actions = bodies["individual"].actions
          /\ bodies["workflow"].threw = bodies["individual"].threw

\* the workflow has stopped at a search button that could not be clicked,
\* and the individual steps have stopped there too
C18_Witness ==
    /\ bodies["workflow"].pc = 3
    /\ bodies["workflow"].threw
    /\ bodies["individual"].pc = 3
    /\ site.fault = "click submit_search"
    /\ Len(bodies["workflow"].actions) = 7
    /\ bodies["workflow"].actions[7] = [do |-> "click submit_search", ok |-> FALSE]

(* -------------------------------- C19 ---------------------------------- *)

\* the Consent button shows within the wait
ConsentInTime == site.consent.kind = "visible" /\ site.consent.after < 3000

Occurrences(a, do) == Cardinality({k \in 1..Len(a) : a[k].do = do})

\* C19: navigateToURL goes to "/" first and then waits for the Consent
\* button.  Once the navigation succeeded it clicks Consent exactly once
\* if the button showed within 3000 ms and not at all otherwise; when the
\* button shows late or never, or the wait fails, navigateToURL returns
\* normally and the click on the Products link follows.
C19_ConsentClickedIffVisible ==
    \A m \in Methods :
        LET a == bodies[m].actions IN
        bodies[m].pc >= 1 =>
            /\ a[1].do = "goto"
            /\ Occurrences(a, "goto") = 1
            /\ a[1].ok =>
                  /\ a[2] = [do |-> "waitFor Consent", ok |-> TRUE]
                  /\ Occurrences(a, "click Consent") = (IF ConsentInTime THEN 1 ELSE 0)
                  /\ ConsentInTime => a[3].do = "click Consent"
                  /\ ~ConsentInTime => a[3].do = "click Products"
            /\ ~a[1].ok => Len(a) = 1 /\ bodies[m].threw

\* a navigation where the Consent button showed after the timeout has
\* gone on to the Products link without a click on Consent
C19_Witness ==
    \E m \in Methods :
        /\ bodies[m].pc = 1
        /\ ~bodies[m].threw
        /\ site.consent = [kind |-> "visible", after |-> 3001]
        /\ Len(bodies[m].actions) = 3
        /\ bodies[m].actions[3] = [do |-> "click Products", ok |-> TRUE]

(* -------------------------------- C14 ---------------------------------- *)

\* a metadata field is given and not empty
Given(metadata, f) == metadata[f].t = "string" /\ metadata[f].v # ""

\* C14: a registration is rejected exactly when the test id or the test
\* name of its metadata is empty or absent, whatever optional fields are
\* missing; and a rejection happens before any body of the file has run:
\* no test has run or been reported, no browser action was issued and
\* nothing is written.
C14_RejectedAtRegistration ==
    /\ \A k \in 1..Len(registry) :
          registry[k].state = "rejected" <=>
              ~(Given(registry[k].metadata, "testId") /\ Given(registry[k].metadata, "testName"))
    /\ LoadFailed =>
          /\ \A k \in 1..Len(registry) : registry[k].state \in {"registered", "rejected"}
          /\ \A m \in Methods : bodies[m].actions = <<>>
          /\ calls = <<>>
          /\ console = <<>>

\* metadata with an empty test id has been rejected after a test with
\* complete metadata was registered, and a test without any optional field
\* has been registered
C14_Witness ==
    /\ Len(registry) = 2
    /\ registry[1].state = "registered"
    /\ \A f \in OptionalFields : registry[1].metadata[f] = Undefined
    /\ registry[2].state = "rejected"
    /\ registry[2].metadata.testId = Str("")
    /\ Given(registry[2].metadata, "testName")

(* -------------------------------- C15 ---------------------------------- *)

\* the reporter's local for a metadata field
LocalOf(f) ==
    CASE f = "testId" -> "testId"
      [] f = "priority" -> "priority"
      [] f = "author" -> "author"
      [] f = "pageUnderTest" -> "page"
      [] f = "featureUnderTest" -> "feature"
      [] f = "linkToJiraTicket" -> "jiraTicket"

LabelOf(f) ==
    CASE f = "testId" -> "Test ID"
      [] f = "priority" -> "Priority"
      [] f = "author" -> "Author"
      [] f = "pageUnderTest" -> "Page"
      [] f = "featureUnderTest" -> "Feature"
      [] f = "linkToJiraTicket" -> "Jira Ticket"

ReportedFields == {"testId"} \cup OptionalFields

\* C15: for a registered test the annotations hold one annotation for
\* every non-empty metadata field and none for the others; looking a label
\* up gives the field; and once the test is reported, the reporter's
\* testId, priority, author, page, feature and Jira ticket are the
\* registered values, with the Jira link at the end of the second line.
C15_RoundTrip ==
    \A k \in 1..Len(registry) :
        LET e == registry[k]
            md == e.metadata
        IN  e.state # "rejected" =>
            LET anns == e.test.annotations.v IN
            /\ Len(anns) = Cardinality({f \in DOMAIN md : Given(md, f)})
            /\ \A f \in ReportedFields :
                  /\ Cardinality({j \in 1..Len(anns) : anns[j].type = Str(LabelOf(f))})
                        = (IF Given(md, f) THEN 1 ELSE 0)
                  /\ Given(md, f) => findAnnotationValue(anns, LabelOf(f)) = md[f]
            /\ e.state = "reported" =>
                  /\ calls[e.call].test = e.test
                  /\ \A f \in ReportedFields :
                        Given(md, f) => calls[e.call].locals[LocalOf(f)] = md[f]
                  /\ Given(md, "linkToJiraTicket") =>
                        EndsWith(Block(e.call)[2], " | Jira: " \o md.linkToJiraTicket.v)

\* the test of GET.test.ts has been registered with all its metadata, has
\* run and has been reported with its test id and Jira link
C15_Witness ==
    \E k \in 1..Len(registry) :
        /\ registry[k].state = "reported"
        /\ registry[k].metadata = ProductsMetadata
        /\ Len(registry[k].test.annotations.v) = 7
        /\ calls[registry[k].call].locals.testId = Str("TC001")
        /\ calls[registry[k].call].locals.jiraTicket =
              Str("https://jira.example.com/browse/JIRA-123")

(* -------------------------------- C21 ---------------------------------- *)

\* C21: an invocation of onTestEnd runs to its end once it has started, so
\* no started invocation is ever waiting; its two or three lines are
\* written in order (line 1, line 2, the separator) at consecutive places
\* of the console, with no line of another invocation between them,
\* whatever the order in which the completions are handled.
C21_BlockConsecutive ==
    /\ \A k \in 1..Len(pending) : pending[k].call = 0
    /\ \A i \in Invocations :
          LET c == calls[i] IN
          /\ Len(c.at) = Len(ExpectedBlock(c))
          /\ Len(c.at) \in {2, 3}
          /\ \A k \in 1..Len(c.at) : console[c.at[k]] = ExpectedBlock(c)[k]
          /\ \A k \in 1..(Len(c.at) - 1) : c.at[k + 1] = c.at[k] + 1
          /\ \A j \in Invocations :
                j # i => \A k \in 1..Len(c.at), n \in 1..Len(calls[j].at) :
                            c.at[k] # calls[j].at[n]

\* a failed test that arrived second has been reported first with its three
\* lines, then the test that arrived first with its two lines, while a
\* third completion waits
C21_Witness ==
    /\ Len(calls) = 2
    /\ calls[1].arrival = 2
    /\ calls[2].arrival = 1
    /\ calls[1].test # calls[2].test
    /\ calls[1].at = <<1, 2, 3>>
    /\ calls[2].at = <<4, 5>>
    /\ Len(pending) = 1

(* -------------------------------- C22 ---------------------------------- *)

\* neither the first annotation of the type nor any tag resolves the field:
\* the annotation has no non-empty description and no tag has the prefix
Unresolved(c, label, prefix) == NoAnnotationValue(c, label) /\ NoTagValue(c, prefix)

\* C22: when neither the annotations nor the tags resolve testId or
\* priority, the report is still written and line 1 keeps both brackets,
\* with the text "undefined" for the unresolved value, not "Unknown" and
\* not an empty bracket.
C22_UndefinedInBrackets ==
    \A i \in Invocations :
        LET c == calls[i]
            noId == Unresolved(c, "Test ID", "@TC")
            noPriority == Unresolved(c, "Priority", "@P")
        IN  HasStatus(c) /\ (noId \/ noPriority) =>
                /\ calls[i].count >= 2
                /\ Block(i)[1] =
                      C3_Glyph(c.result.status.v) \o " [" \o
                      (IF noId THEN "undefined" ELSE c.locals.testId.v) \o "][" \o
                      (IF noPriority THEN "undefined" ELSE c.locals.priority.v) \o
                      "] " \o c.test.title.v
                /\ noId /\ noPriority =>
                      /\ StartsWith(Block(i)[1],
                                    C3_Glyph(c.result.status.v) \o " [undefined][undefined] ")
                      /\ ~Contains(Block(i)[1], "Unknown")

\* the failed test "getAllProducts" without a tag list and with an empty
\* annotation list has been reported with "undefined" for both
C22_Witness ==
    \E i \in Invocations :
        /\ calls[i].test.tags = Undefined
        /\ calls[i].test.annotations = Arr(<<>>)
        /\ calls[i].count = 3
        /\ Block(i)[1] = "<U+274C> [undefined][undefined] getAllProducts"

====
